---- MODULE Spec2Model ----
(***************************************************************************)
(* Model of fyne's text painter (internal/painter/font.go): the font face  *)
(* cache, the metrics cache in front of text measurement, and the tab      *)
(* aware layout of shaped runs.                                            *)
(*                                                                         *)
(* Numbers.  A fixed.Int26_6 value is modelled by its integer (1/64 px).   *)
(* A float32 is modelled by an integer count of 1/(64*Sub) px, so that the *)
(* conversions between the two are not the identity.                       *)
(***************************************************************************)
EXTENDS Integers, Sequences, FiniteSets, TLC

VARIABLES theme, env, fontCache, cache, nextId, calls,
          pc, style, ptr, f1, val, ret, nLoads,
          resolved, sinceClear,
          lay,
          mkey, metrics, rts, seen,
          animationMutex, animations, pendingAnimations, runnerStarted,
          heap, caller, tk, hist

fontVars == <<theme, env, fontCache, cache, nextId, calls,
              pc, style, ptr, f1, val, ret, nLoads,
              resolved, sinceClear>>

metricVars == <<mkey, metrics, rts, seen>>

\* the Runner, the anim values it points to, the calls in progress and the
\* history of what was observed
animVars == <<animationMutex, animations, pendingAnimations, runnerStarted,
              heap, caller, tk, hist>>

vars == <<fontVars, lay, metricVars, animVars>>

(***************************************************************************)
(* Bounds                                                                  *)
(***************************************************************************)
NThreads == 2
MaxCalls == 3
MaxThemeVer == 1
MaxClears == 1
MaxLen == 3
MaxKeyLen == 1
MaxCells == 9

Threads == 1..NThreads

(***************************************************************************)
(* Styles, resources and faces                                             *)
(***************************************************************************)
Styles == [Bold : BOOLEAN, Italic : BOOLEAN, Monospace : BOOLEAN, Symbol : BOOLEAN]

RegularStyle == [Bold |-> FALSE, Italic |-> FALSE, Monospace |-> FALSE, Symbol |-> FALSE]
MonoBoldStyle == [Bold |-> TRUE, Italic |-> FALSE, Monospace |-> TRUE, Symbol |-> FALSE]

\* the styles the callers use when they make several calls
ThreadStyles == {RegularStyle, MonoBoldStyle}

NilFace == [cat |-> "nil", kind |-> "nil", ver |-> 0]

NoItem == [id |-> 0, Fonts |-> <<>>]

\* the theme's font of a category: a resource whose bytes parse or do not
ThemeFont(th, cat) == [cat |-> cat, kind |-> "primary", ver |-> th.ver, ok |-> th.primaryOk]

\* the bundled default font of a category
DefaultFont(e, cat) == [cat |-> cat, kind |-> "default", ver |-> 0, ok |-> e.defaultOk]

\* the bundled emoji font
EmojiFont(e) == [cat |-> "emoji", kind |-> "emoji", ver |-> 0, ok |-> e.emoji = "ok"]

loadMeasureFont(data) ==
    IF data.ok THEN [cat |-> data.cat, kind |-> data.kind, ver |-> data.ver]
    ELSE NilFace

CategoryBoldFirst(s) ==
    IF s.Bold THEN (IF s.Italic THEN "boldItalic" ELSE "bold")
    ELSE IF s.Monospace THEN "monospace"
    ELSE IF s.Italic THEN "italic"
    ELSE IF s.Symbol THEN "symbol"
    ELSE "regular"

\* the switch of CachedFontFace
Category(s) ==
    IF s.Monospace THEN "monospace"
    ELSE IF s.Bold THEN (IF s.Italic THEN "boldItalic" ELSE "bold")
    ELSE IF s.Italic THEN "italic"
    ELSE IF s.Symbol THEN "symbol"
    ELSE "regular"

\* if f1 == nil { f1 = f2 }
FirstFace(a, b) == IF a = NilFace THEN b ELSE a

\* faces := []font.Face{f1, f2}, plus the emoji face when the theme has one
BuildFaces(a, b, e) ==
    IF e.emoji # "none" THEN <<FirstFace(a, b), b, loadMeasureFont(EmojiFont(e))>>
    ELSE <<FirstFace(a, b), b>>

\* the face list a resolution of category cat builds when it reads theme th
FacesFor(th, e, cat) ==
    BuildFaces(loadMeasureFont(ThemeFont(th, cat)), loadMeasureFont(DefaultFont(e, cat)), e)

StoreDropped(c, s, v) == c

\* sync.Map.Store
MapStore(c, s, v) == [c EXCEPT ![s] = v]

EmptyMap == [s \in Styles |-> NoItem]

(***************************************************************************)
(* Numbers                                                                 *)
(***************************************************************************)
\* float32 steps per fixed.Int26_6 step in this model
Sub == 2

\* float32 steps per 1.0
Unit == 64 * Sub

\* the integer part of a / b, rounding toward zero (math.Modf, int())
TruncDiv(a, b) ==
    IF (a >= 0) = (b > 0) THEN (IF a >= 0 THEN a ELSE 0 - a) \div (IF b > 0 THEN b ELSE 0 - b)
    ELSE 0 - ((IF a >= 0 THEN a ELSE 0 - a) \div (IF b > 0 THEN b ELSE 0 - b))

fixed266ToFloat32(i) == i * Sub

float32ToFixed266(f) == TruncDiv(f, Sub)

\* fixed.I(int(fontSize * scale))
FixedSize(fontSize, scale) == 64 * TruncDiv(fontSize * scale, Unit * Unit)

Max(a, b) == IF a > b THEN a ELSE b

(***************************************************************************)
(* The shaping engine (go-text), as far as the painter depends on it       *)
(***************************************************************************)
Tab == "\t"
CR == "\r"
Space == " "
Replacement == "fffd"

Runes == {Tab, CR, Space, "a", "e", "u"}

\* f.NominalGlyph(r): text faces hold the Latin glyphs and U+FFFD, the emoji
\* face holds the emoji, no face holds "u"
HasGlyph(face, r) ==
    IF face.kind = "emoji" THEN r = "e" ELSE r \in {Space, "a", Replacement}

GlyphID(face, r) ==
    IF ~HasGlyph(face, r) THEN 0
    ELSE IF r = Space THEN 3 ELSE IF r = "a" THEN 36 ELSE IF r = "e" THEN 5 ELSE 2

\* glyph advances and line bounds of a face, in 1/64 em
GlyphAdvance(face, r) ==
    IF ~HasGlyph(face, r) THEN 40
    ELSE IF r = Space THEN 16 ELSE IF r = "a" THEN 32 ELSE IF r = "e" THEN 80 ELSE 64

FaceBounds(face) ==
    IF face.kind = "emoji" THEN [Ascent |-> 60, Descent |-> -20, Gap |-> 4]
    ELSE IF face.kind = "default" THEN [Ascent |-> 56, Descent |-> -16, Gap |-> 0]
    ELSE [Ascent |-> 48, Descent |-> -16, Gap |-> 0]

\* a font value scaled to a fixed-point size
Scaled(u, size) == TruncDiv(u * size, 64)

RECURSIVE SumAdvance(_, _, _)
SumAdvance(face, text, size) ==
    IF text = <<>> THEN 0
    ELSE Scaled(GlyphAdvance(face, Head(text)), size) + SumAdvance(face, Tail(text), size)

\* shaping.HarfbuzzShaper.Shape
Shape(in) ==
    [Advance |-> SumAdvance(in.Face, in.Text, in.Size),
     LineBounds |-> [Ascent |-> Scaled(FaceBounds(in.Face).Ascent, in.Size),
                     Descent |-> Scaled(FaceBounds(in.Face).Descent, in.Size),
                     Gap |-> Scaled(FaceBounds(in.Face).Gap, in.Size)],
     Glyphs |-> [i \in 1..Len(in.Text) |-> GlyphID(in.Face, in.Text[i])],
     Face |-> in.Face,
     Size |-> in.Size,
     Text |-> in.Text]

LineThickness(lb) == lb.Ascent - lb.Descent + lb.Gap

\* fixedFontmap.ResolveFace panics when it calls NominalGlyph on a nil face
ResolvePanics(ff, r) ==
    \E i \in 1..Len(ff) : ff[i] = NilFace /\ \A j \in 1..(i - 1) : ~HasGlyph(ff[j], r)

\* fixedFontmap.ResolveFace
ResolveFace(ff, r) ==
    IF \E i \in 1..Len(ff) : HasGlyph(ff[i], r)
    THEN ff[CHOOSE i \in 1..Len(ff) : HasGlyph(ff[i], r) /\ \A j \in 1..(i - 1) : ~HasGlyph(ff[j], r)]
    ELSE ff[1]

\* shaping.Segmenter.Split: one run per stretch of runes with the same face
RECURSIVE Split(_, _, _)
Split(str, ff, size) ==
    IF str = <<>> THEN <<>>
    ELSE LET face == ResolveFace(ff, Head(str))
             rest == Split(Tail(str), ff, size)
         IN IF rest # <<>> /\ rest[1].Face = face
            THEN <<[Text |-> <<Head(str)>> \o rest[1].Text, Face |-> face, Size |-> size]>>
                     \o Tail(rest)
            ELSE <<[Text |-> <<Head(str)>>, Face |-> face, Size |-> size]>> \o rest

(***************************************************************************)
(* Layout                                                                  *)
(***************************************************************************)
DefaultTabWidth == 4

fontTabSpaceSize == 10

\* if tabWidth <= 0 { tabWidth = DefaultTabWidth }
EffectiveTabWidth(tabWidth) == IF tabWidth <= 0 THEN DefaultTabWidth ELSE tabWidth

TabCountCeil(x, tabw) == TruncDiv(x + tabw - 1, tabw)

\* tabs, _ := math.Modf(float64((x + tabw) / tabw))
TabCount(x, tabw) == TruncDiv(x + tabw, tabw)

tabStop(spacew, x, tabWidth) ==
    LET tabw == spacew * EffectiveTabWidth(tabWidth)
    IN tabw * TabCount(x, tabw)

\* the run a sink call receives instead of a run with one glyph that was not found
ReplacementRun(run, textSize) ==
    Shape([Text |-> <<Replacement>>, Face |-> run.Face, Size |-> textSize])

SubstitutedNever(run) == FALSE

\* len(run.Glyphs) == 1 and run.Glyphs[0].GlyphID == 0
Substituted(run) == Len(run.Glyphs) = 1 /\ run.Glyphs[1] = 0

processFontRunOwnAscent(run, textSize, y, advance) ==
    LET out == IF Substituted(run) THEN ReplacementRun(run, textSize) ELSE run
        adv == fixed266ToFloat32(out.Advance) + advance
    IN [call |-> [run |-> out, x |-> advance, y |-> fixed266ToFloat32(out.LineBounds.Ascent)],
        advance |-> adv,
        size |-> [Width |-> adv, Height |-> fixed266ToFloat32(LineThickness(run.LineBounds))],
        base |-> fixed266ToFloat32(run.LineBounds.Ascent)]

\* processFontRun: the sink call, the cursor after the run (*advance), the
\* returned size and the second return value
processFontRun(run, textSize, y, advance) ==
    IF Substituted(run)
    THEN LET out == ReplacementRun(run, textSize)
             adv == fixed266ToFloat32(out.Advance) + advance
         IN [call |-> [run |-> out, x |-> advance, y |-> fixed266ToFloat32(out.LineBounds.Ascent)],
             advance |-> adv,
             size |-> [Width |-> adv, Height |-> fixed266ToFloat32(LineThickness(run.LineBounds))],
             base |-> fixed266ToFloat32(run.LineBounds.Ascent)]
    ELSE LET adv == fixed266ToFloat32(run.Advance) + advance
         IN [call |-> [run |-> run, x |-> advance, y |-> y],
             advance |-> adv,
             size |-> [Width |-> adv, Height |-> fixed266ToFloat32(LineThickness(run.LineBounds))],
             base |-> fixed266ToFloat32(run.LineBounds.Ascent)]

\* the first loop of processSubString: the largest ascent, 0 at least
RECURSIVE MaxAscent(_)
MaxAscent(line) ==
    IF line = <<>> THEN 0
    ELSE Max(fixed266ToFloat32(line[1].LineBounds.Ascent), MaxAscent(Tail(line)))

\* if adv >= advance { advance = adv }, adv being processFontRun's second result
CursorAfterRun(r) == IF r.base >= r.advance THEN r.base ELSE r.advance

\* the second loop of processSubString
RECURSIVE LayoutRuns(_, _, _, _, _, _)
LayoutRuns(line, textSize, base, advance, thickness, sunk) ==
    IF line = <<>>
    THEN [size |-> [Width |-> advance, Height |-> thickness], advance |-> advance, calls |-> sunk]
    ELSE LET r == processFontRun(line[1], textSize, base, advance)
         IN LayoutRuns(Tail(line), textSize, base, CursorAfterRun(r),
                       Max(thickness, r.size.Height), Append(sunk, r.call))

Line(str, f, fontSize, scale) ==
    LET runs == Split(str, f, FixedSize(fontSize, scale))
    IN [i \in 1..Len(runs) |-> Shape(runs[i])]

processSubString(str, f, fontSize, scale, startX) ==
    LET line == Line(str, f, fontSize, scale)
    IN LayoutRuns(line, float32ToFixed266(fontSize), MaxAscent(line), startX, 0, <<>>)

\* strings.ReplaceAll(s, "\r", "")
RECURSIVE StripCR(_)
StripCR(s) ==
    IF s = <<>> THEN <<>>
    ELSE IF Head(s) = CR THEN StripCR(Tail(s)) ELSE <<Head(s)>> \o StripCR(Tail(s))

\* height = inset.Height
HeightAfter(height, h) == h

\* the loop of processString over the runes rs[i..], then the trailing substring
RECURSIVE ScanRunes(_, _, _, _, _, _, _, _, _, _)
ScanRunes(rs, i, start, x, height, sunk, f, fontSize, scale, tabWidth) ==
    IF i > Len(rs)
    THEN IF start < Len(rs) + 1
         THEN LET trail == processSubString(SubSeq(rs, start, Len(rs)), f, fontSize, scale, x)
              IN [size |-> [Width |-> trail.advance, Height |-> HeightAfter(height, trail.size.Height)],
                  advance |-> trail.advance,
                  calls |-> sunk \o trail.calls]
         ELSE [size |-> [Width |-> x, Height |-> height], advance |-> x, calls |-> sunk]
    ELSE IF rs[i] = Tab
         THEN LET spacew == scale * fontTabSpaceSize
              IN IF i > start
                 THEN LET inset == processSubString(SubSeq(rs, start, i - 1), f, fontSize, scale, x)
                      IN ScanRunes(rs, i + 1, i + 1, tabStop(spacew, inset.advance, tabWidth),
                                   HeightAfter(height, inset.size.Height), sunk \o inset.calls,
                                   f, fontSize, scale, tabWidth)
                 ELSE ScanRunes(rs, i + 1, i + 1, tabStop(spacew, x, tabWidth),
                                height, sunk, f, fontSize, scale, tabWidth)
         ELSE ScanRunes(rs, i + 1, start, x, height, sunk, f, fontSize, scale, tabWidth)

processString(s, f, fontSize, scale, tabWidth) ==
    ScanRunes(StripCR(s), 1, 1, 0, 0, <<>>, f, fontSize, scale, tabWidth)

\* the call panics in ResolveFace
StringPanics(s, f) ==
    \E i \in 1..Len(s) : s[i] \notin {Tab, CR} /\ ResolvePanics(f, s[i])

ZeroResult == [size |-> [Width |-> 0, Height |-> 0], advance |-> 0, calls |-> <<>>]

\* MeasureString
MeasureString(f, s, textSize, tabWidth) ==
    IF s = <<Space>> THEN ZeroResult
    ELSE processString(s, f, textSize, Unit, tabWidth)

(***************************************************************************)
(* Initial state of the font cache: nothing cached, no call in progress    *)
(***************************************************************************)
FontInit ==
    /\ theme \in [ver : {0}, primaryOk : BOOLEAN]
    /\ env \in [defaultOk : BOOLEAN, emoji : {"none", "ok", "bad"}]
    /\ fontCache = 0
    /\ cache = EmptyMap
    /\ nextId = 1
    /\ calls = 0
    /\ pc = [t \in Threads |-> "idle"]
    /\ style = [t \in Threads |-> RegularStyle]
    /\ ptr = [t \in Threads |-> 0]
    /\ f1 = [t \in Threads |-> NilFace]
    /\ val = [t \in Threads |-> NoItem]
    /\ ret = [t \in Threads |-> NoItem]
    /\ nLoads = [t \in Threads |-> 0]
    /\ resolved = {}
    /\ sinceClear = {theme}

(***************************************************************************)
(* CachedFontFace, one step per access to shared state                     *)
(***************************************************************************)

\* entry and fontCache.Load(style): a hit returns the cached item at once
Call(t, s, max) ==
    /\ pc[t] = "idle"
    /\ calls < max
    /\ calls' = calls + 1
    /\ style' = [style EXCEPT ![t] = s]
    /\ ptr' = [ptr EXCEPT ![t] = fontCache]
    /\ nLoads' = [nLoads EXCEPT ![t] = 0]
    /\ IF cache[s] # NoItem
       THEN /\ pc' = [pc EXCEPT ![t] = "idle"]
            /\ ret' = [ret EXCEPT ![t] = cache[s]]
            /\ resolved' = resolved \cup {s}
       ELSE /\ pc' = [pc EXCEPT ![t] = "f1"]
            /\ UNCHANGED <<ret, resolved>>
    /\ UNCHANGED <<theme, env, fontCache, cache, nextId, f1, val, sinceClear>>
    /\ UNCHANGED <<lay, metricVars, animVars>>

\* f1 = loadMeasureFont(theme.<Category>Font())
LoadPrimary(t) ==
    /\ pc[t] = "f1"
    /\ f1' = [f1 EXCEPT ![t] = loadMeasureFont(ThemeFont(theme, Category(style[t])))]
    /\ nLoads' = [nLoads EXCEPT ![t] = @ + 1]
    /\ pc' = [pc EXCEPT ![t] = "f2"]
    /\ UNCHANGED <<theme, env, fontCache, cache, nextId, calls, style, ptr, val,
                   ret, resolved, sinceClear>>
    /\ UNCHANGED <<lay, metricVars, animVars>>

\* f2 = loadMeasureFont(theme.Default<Category>Font()), the nil check, the
\* face list and the new FontCacheItem
LoadDefault(t) ==
    /\ pc[t] = "f2"
    /\ LET d == loadMeasureFont(DefaultFont(env, Category(style[t])))
       IN val' = [val EXCEPT ![t] = [id |-> nextId, Fonts |-> BuildFaces(f1[t], d, env)]]
    /\ nextId' = nextId + 1
    /\ nLoads' = [nLoads EXCEPT ![t] = @ + (IF env.emoji # "none" THEN 2 ELSE 1)]
    /\ f1' = [f1 EXCEPT ![t] = NilFace]
    /\ pc' = [pc EXCEPT ![t] = "store"]
    /\ UNCHANGED <<theme, env, fontCache, cache, calls, style, ptr,
                   ret, resolved, sinceClear>>
    /\ UNCHANGED <<lay, metricVars, animVars>>

\* fontCache.Store(style, val) and the return.  The variable fontCache is
\* read again here without synchronisation: the read yields the current map
\* or, when a ClearFontCache raced with this call, the map seen at entry
\* (which is no longer reachable, so the store into it is lost).
Store(t) ==
    /\ pc[t] = "store"
    /\ \E p \in {fontCache, ptr[t]} :
          cache' = IF p = fontCache THEN MapStore(cache, style[t], val[t]) ELSE cache
    /\ pc' = [pc EXCEPT ![t] = "idle"]
    /\ ret' = [ret EXCEPT ![t] = val[t]]
    /\ val' = [val EXCEPT ![t] = NoItem]
    /\ resolved' = resolved \cup {style[t]}
    /\ UNCHANGED <<theme, env, fontCache, nextId, calls, style, ptr, f1,
                   nLoads, sinceClear>>
    /\ UNCHANGED <<lay, metricVars, animVars>>

\* ClearFontCache: fontCache = &sync.Map{}
ClearFontCache ==
    /\ fontCache < MaxClears
    /\ fontCache' = fontCache + 1
    /\ cache' = EmptyMap
    /\ resolved' = {}
    /\ sinceClear' = {theme}
    /\ UNCHANGED <<theme, env, nextId, calls, pc, style, ptr, f1, val, ret, nLoads>>
    /\ UNCHANGED <<lay, metricVars, animVars>>

\* the application installs another theme: the fonts the theme package hands
\* out from now on are those of the new theme
ThemeChange ==
    /\ theme.ver < MaxThemeVer
    /\ \E ok \in BOOLEAN : theme' = [ver |-> theme.ver + 1, primaryOk |-> ok]
    /\ sinceClear' = sinceClear \cup {theme'}
    /\ UNCHANGED <<env, fontCache, cache, nextId, calls, pc, style, ptr, f1, val,
                   ret, nLoads, resolved>>
    /\ UNCHANGED <<lay, metricVars, animVars>>

(***************************************************************************)
(* Layout calls: each behaviour makes one call; lay holds its arguments    *)
(* and its result                                                          *)
(***************************************************************************)
Texts == UNION {[1..k -> Runes] : k \in 0..MaxLen}

\* the face lists CachedFontFace can hand to the layout
FaceLists ==
    {FacesFor([ver |-> 0, primaryOk |-> p], e, "regular") :
        p \in BOOLEAN, e \in [defaultOk : BOOLEAN, emoji : {"none", "ok", "bad"}]}

\* 16 and 16.5
FontSizes == {16 * Unit, 16 * Unit + Unit \div 2}

Scales == {Unit, 2 * Unit}

TabWidths == {0, 2, 4}

NoCall ==
    [op |-> "none", s |-> <<>>, f |-> <<>>, fontSize |-> 0, scale |-> 0, tabWidth |-> 0,
     x |-> 0, panic |-> FALSE, res |-> ZeroResult]

DoProcessString ==
    /\ lay = NoCall
    /\ \E s \in Texts, f \in FaceLists, fontSize \in FontSizes, scale \in Scales, tw \in TabWidths :
        /\ lay' = [op |-> "processString", s |-> s, f |-> f, fontSize |-> fontSize,
                   scale |-> scale, tabWidth |-> tw, x |-> 0,
                   panic |-> StringPanics(s, f),
                   res |-> IF StringPanics(s, f) THEN ZeroResult
                           ELSE processString(s, f, fontSize, scale, tw)]
        /\ UNCHANGED <<fontVars, metricVars, animVars>>

\* processString calls processSubString with a non-empty stretch of runes
\* without tab or carriage return, at cursor 0 or at a tab stop
DoProcessSubString ==
    /\ lay = NoCall
    /\ \E s \in Texts, f \in FaceLists, fontSize \in FontSizes, scale \in Scales, tw \in TabWidths,
       atStop \in BOOLEAN :
        /\ s # <<>>
        /\ \A i \in 1..Len(s) : s[i] \notin {Tab, CR}
        /\ LET startX == IF atStop THEN tabStop(scale * fontTabSpaceSize, 0, tw) ELSE 0
           IN lay' = [op |-> "processSubString", s |-> s, f |-> f, fontSize |-> fontSize,
                      scale |-> scale, tabWidth |-> tw, x |-> startX,
                      panic |-> StringPanics(s, f),
                      res |-> IF StringPanics(s, f) THEN ZeroResult
                              ELSE processSubString(s, f, fontSize, scale, startX)]
        /\ UNCHANGED <<fontVars, metricVars, animVars>>

\* the call processSubString makes for run k of its line: the text size is
\* float32ToFixed266(fontSize), y the largest ascent of the line, and the
\* cursor the start of the substring or a position after it
DoProcessFontRun ==
    /\ lay = NoCall
    /\ \E s \in Texts, f \in FaceLists, fontSize \in FontSizes, scale \in Scales,
          k \in 1..MaxLen, atStop \in BOOLEAN :
        /\ s # <<>>
        /\ \A i \in 1..Len(s) : s[i] \notin {Tab, CR}
        /\ ~StringPanics(s, f)
        /\ k <= Len(Line(s, f, fontSize, scale))
        /\ LET line == Line(s, f, fontSize, scale)
               cursor == IF atStop THEN tabStop(scale * fontTabSpaceSize, 0, 0) ELSE 0
               r == processFontRun(line[k], float32ToFixed266(fontSize), MaxAscent(line), cursor)
           IN lay' = [op |-> "processFontRun", s |-> s, f |-> f, fontSize |-> fontSize,
                      scale |-> scale, tabWidth |-> 0, x |-> cursor, panic |-> FALSE,
                      run |-> line[k], y |-> MaxAscent(line),
                      res |-> [size |-> r.size, advance |-> r.advance, calls |-> <<r.call>>]]
        /\ UNCHANGED <<fontVars, metricVars, animVars>>

\* tabStop at a cursor on, just before or just after a multiple of the space width
DoTabStop ==
    /\ lay = NoCall
    /\ \E scale \in Scales, tw \in TabWidths \cup {-1, 1}, k \in 0..MaxCells, d \in {-1, 0, 1} :
        /\ k * scale * fontTabSpaceSize + d >= 0
        /\ LET x == k * scale * fontTabSpaceSize + d
           IN lay' = [op |-> "tabStop", s |-> <<>>, f |-> <<>>, fontSize |-> 0,
                      scale |-> scale, tabWidth |-> tw, x |-> x, panic |-> FALSE,
                      res |-> [size |-> [Width |-> 0, Height |-> 0],
                               advance |-> tabStop(scale * fontTabSpaceSize, x, tw),
                               calls |-> <<>>]]
        /\ UNCHANGED <<fontVars, metricVars, animVars>>

(***************************************************************************)
(* The metrics cache and RenderedTextSize, for one caller and one key      *)
(***************************************************************************)
NoKey == [text |-> <<>>, fontSize |-> 0, style |-> RegularStyle, tabWidth |-> 0]

\* the (text, fontSize, style) a behaviour measures; the style's tab width
\* is kept apart from its four flags
Keys ==
    [text : UNION {[1..k -> Runes] : k \in 0..MaxKeyLen},
     fontSize : FontSizes,
     style : {RegularStyle},
     tabWidth : {0, 2}]

ZeroSize == [Width |-> 0, Height |-> 0]

\* cache.GetFontMetrics: the stored size and baseline, zeros for a key not stored
GetFontMetrics(m, key) ==
    IF \E e \in m : e.key = key
    THEN LET e == CHOOSE e \in m : e.key = key IN [size |-> e.size, base |-> e.base]
    ELSE [size |-> ZeroSize, base |-> 0]

\* cache.SetFontMetrics
SetFontMetrics(m, key, size, base) ==
    {e \in m : e.key # key} \cup {[key |-> key, size |-> size, base |-> base]}

IsHitNever(base) == FALSE

\* if base != 0 { return size, base }
IsHit(base) == base # 0

\* CachedFontFace run from entry to return with no other call in between
Resolve(c, th, e, s, id) ==
    IF c[s] # NoItem THEN [item |-> c[s], cache |-> c, nextId |-> id]
    ELSE LET it == [id |-> id, Fonts |-> FacesFor(th, e, Category(s))]
         IN [item |-> it, cache |-> MapStore(c, s, it), nextId |-> id + 1]

\* measureText: the second result is MeasureString's advance
measureText(faces, key) ==
    LET m == MeasureString(faces, key.text, key.fontSize, key.tabWidth)
    IN [size |-> m.size, base |-> m.advance]

\* MeasureString returns before any shaping for the single space
MeasurePanics(faces, key) == key.text # <<Space>> /\ StringPanics(key.text, faces)

NoRts == [size |-> ZeroSize, base |-> 0, measured |-> FALSE, panic |-> FALSE, f |-> <<>>]

NoSeen == [size |-> ZeroSize, base |-> 0, n |-> 0]

\* the first pair returned since the metrics cache was last cleared, and
\* whether one call or more have returned since
Seen(sn, size, base) ==
    IF sn.n = 0 THEN [size |-> size, base |-> base, n |-> 1] ELSE [sn EXCEPT !.n = 2]

RenderedTextSize ==
    LET got == GetFontMetrics(metrics, mkey)
        r == Resolve(cache, theme, env, mkey.style, nextId)
    IN IF IsHit(got.base)
       THEN /\ rts' = [size |-> got.size, base |-> got.base, measured |-> FALSE,
                       panic |-> FALSE, f |-> <<>>]
            /\ seen' = Seen(seen, got.size, got.base)
            /\ UNCHANGED <<metrics, cache, nextId, resolved>>
       ELSE /\ cache' = r.cache
            /\ nextId' = r.nextId
            /\ resolved' = resolved \cup {mkey.style}
            /\ IF MeasurePanics(r.item.Fonts, mkey)
               THEN /\ rts' = [size |-> ZeroSize, base |-> 0, measured |-> TRUE,
                               panic |-> TRUE, f |-> r.item.Fonts]
                    /\ UNCHANGED <<metrics, seen>>
               ELSE LET m == measureText(r.item.Fonts, mkey)
                    IN /\ metrics' = SetFontMetrics(metrics, mkey, m.size, m.base)
                       /\ rts' = [size |-> m.size, base |-> m.base, measured |-> TRUE,
                                  panic |-> FALSE, f |-> r.item.Fonts]
                       /\ seen' = Seen(seen, m.size, m.base)

DoRenderedTextSize ==
    /\ RenderedTextSize
    /\ UNCHANGED <<theme, env, fontCache, calls, pc, style, ptr, f1, val, ret, nLoads,
                   sinceClear, lay, mkey, animVars>>

\* the bulk clear of the metrics cache
ClearMetrics ==
    /\ metrics' = {}
    /\ seen' = NoSeen
    /\ UNCHANGED <<fontVars, lay, mkey, rts, animVars>>

MetricsIdle == mkey = NoKey /\ metrics = {} /\ rts = NoRts /\ seen = NoSeen

(***************************************************************************)
(* The animation runner (package animation).  The driver is the one thread *)
(* that calls TickAnimations.  Start and Stop run from the first statement *)
(* to the last under animationMutex, so calls of them from several threads *)
(* happen one after the other: one caller makes them all.  A step of a     *)
(* call is the acquisition of animationMutex, a section that ends with the *)
(* release of it, or a stretch of code outside the lock.                   *)
(***************************************************************************)
MaxStarts == 3
MaxRepeat == 1

\* the holders of animationMutex
Free == "free"
Driver == "driver"
App == "caller"

\* the fields of fyne.Animation the runner reads; id tells two animations apart
NoAnim == [id |-> 0, AutoReverse |-> FALSE, RepeatCount |-> 0]

\* the animations of the runs that exercise the lists: each ends at its first expiry
RunnerAnims == {[id |-> i, AutoReverse |-> FALSE, RepeatCount |-> 0] : i \in {1, 2}}

\* the animations of the runs that exercise tickAnimation
TickAnims == [id : {1}, AutoReverse : BOOLEAN, RepeatCount : (-1)..MaxRepeat]

\* the most pass ends an animation with a repeat count up to MaxRepeat has
LogCap == 2 * (MaxRepeat + 1)

\* newAnim: the anim value of a started animation.  log and over are
\* history: the values 0.0 and 1.0 handed to Tick at the end of a pass, and
\* whether tickAnimation has returned false for the anim ("yes") and
\* whether it was ticked after that ("ticked")
newAnim(a) ==
    [a |-> a, stopped |-> FALSE, reverse |-> FALSE, repeatsLeft |-> a.RepeatCount,
     log |-> <<>>, over |-> "no"]

setStopped(e) == [e EXCEPT !.stopped = TRUE]

isStopped(e) == e.stopped

\* a.a.Tick(v)
Tick(e, v) ==
    [e EXCEPT !.log = IF v \in {"0.0", "1.0"} THEN Append(@, v) ELSE @,
              !.over = IF @ = "no" THEN "no" ELSE "ticked"]

RepeatStepKeep(e) ==
    IF ~e.reverse /\ e.repeatsLeft = 0 THEN [ok |-> FALSE, anim |-> e]
    ELSE [ok |-> TRUE, anim |-> e]

\* if !a.reverse { if a.repeatsLeft == 0 { return false }; if a.repeatsLeft > 0 { a.repeatsLeft-- } }
RepeatStep(e) ==
    IF ~e.reverse
    THEN IF e.repeatsLeft = 0 THEN [ok |-> FALSE, anim |-> e]
         ELSE [ok |-> TRUE,
               anim |-> [e EXCEPT !.repeatsLeft = IF @ > 0 THEN @ - 1 ELSE @]]
    ELSE [ok |-> TRUE, anim |-> e]

\* tickAnimation: what it returns and the anim after it; expired is
\* time.Now().After(a.end)
tickAnimation(e, expired) ==
    IF expired
    THEN IF e.reverse
         THEN LET t == Tick(e, "0.0")
              IN IF t.repeatsLeft = 0 THEN [ok |-> FALSE, anim |-> t]
                 ELSE RepeatStep([t EXCEPT !.reverse = FALSE])
         ELSE LET t == Tick(e, "1.0")
              IN RepeatStep(IF t.a.AutoReverse THEN [t EXCEPT !.reverse = TRUE] ELSE t)
    ELSE [ok |-> TRUE,
          anim |-> Tick(e, IF e.reverse THEN "curve(1-val)" ELSE "curve(val)")]

\* the fields of the Runner a step touches are recorded when the step does
\* not hold animationMutex
Access(who, fields) ==
    [hist EXCEPT !.unguarded = IF animationMutex = who THEN @ ELSE @ \cup fields]

NoTick == [pc |-> "idle", oldList |-> <<>>, newList |-> <<>>, i |-> 0, ticked |-> {}]

\* a Runner as declared: no animation, not started, nothing in progress
RunnerInit ==
    /\ animationMutex = Free
    /\ animations = <<>>
    /\ pendingAnimations = <<>>
    /\ runnerStarted = FALSE
    /\ heap = <<>>
    /\ caller = [pc |-> "idle", a |-> NoAnim]
    /\ tk = NoTick
    /\ hist = [stopRet |-> {}, ticked |-> {}, stopCalled |-> {}, unguarded |-> {}]

\* Start: r.animationMutex.Lock(); at most max calls of Start are made
StartLock(a, max) ==
    /\ caller.pc = "idle"
    /\ animationMutex = Free
    /\ Len(heap) < max
    /\ animationMutex' = App
    /\ caller' = [pc |-> "Start", a |-> a]
    /\ hist' = [hist EXCEPT !.stopRet = @ \ {a}]
    /\ UNCHANGED <<animations, pendingAnimations, runnerStarted, heap, tk>>
    /\ UNCHANGED <<fontVars, lay, metricVars>>

\* Start: the section under the lock and the deferred unlock
StartBody ==
    /\ caller.pc = "Start"
    /\ heap' = Append(heap, newAnim(caller.a))
    /\ IF ~runnerStarted
       THEN /\ runnerStarted' = TRUE
            /\ animations' = Append(animations, Len(heap) + 1)
            /\ UNCHANGED pendingAnimations
       ELSE /\ pendingAnimations' = Append(pendingAnimations, Len(heap) + 1)
            /\ UNCHANGED <<animations, runnerStarted>>
    /\ hist' = Access(App, {"runnerStarted", "animations", "pendingAnimations"})
    /\ animationMutex' = Free
    /\ caller' = [pc |-> "idle", a |-> NoAnim]
    /\ UNCHANGED tk
    /\ UNCHANGED <<fontVars, lay, metricVars>>

\* Stop: r.animationMutex.Lock()
StopLock(a) ==
    /\ caller.pc = "idle"
    /\ animationMutex = Free
    /\ animationMutex' = App
    /\ caller' = [pc |-> "Stop", a |-> a]
    /\ hist' = [hist EXCEPT !.stopCalled = @ \cup {a}]
    /\ UNCHANGED <<animations, pendingAnimations, runnerStarted, heap, tk>>
    /\ UNCHANGED <<fontVars, lay, metricVars>>

\* the entries of a list that are not for animation a
Others(list, a) == SelectSeq(list, LAMBDA e : heap[e].a # a)

\* the entries of a list that are for animation a
EntriesFor(list, a) == {list[i] : i \in {j \in 1..Len(list) : heap[list[j]].a = a}}

\* Stop: the section under the lock and the deferred unlock
StopBody ==
    LET a == caller.a
        stopped == EntriesFor(animations, a) # {}
        marked == IF stopped THEN EntriesFor(animations, a)
                  ELSE EntriesFor(pendingAnimations, a)
    IN /\ caller.pc = "Stop"
       /\ heap' = [e \in 1..Len(heap) |-> IF e \in marked THEN setStopped(heap[e]) ELSE heap[e]]
       /\ animations' = Others(animations, a)
       /\ pendingAnimations' = IF stopped THEN pendingAnimations
                               ELSE Others(pendingAnimations, a)
       /\ hist' = [Access(App, {"animations", "pendingAnimations"})
                       EXCEPT !.stopRet = @ \cup {a}]
       /\ animationMutex' = Free
       /\ caller' = [pc |-> "idle", a |-> NoAnim]
       /\ UNCHANGED <<runnerStarted, tk>>
       /\ UNCHANGED <<fontVars, lay, metricVars>>

\* TickAnimations: if !r.runnerStarted { return }
TickCheck ==
    /\ tk.pc = "idle"
    /\ hist' = Access(Driver, {"runnerStarted"})
    /\ tk' = IF runnerStarted THEN [tk EXCEPT !.pc = "lock1"] ELSE tk
    /\ UNCHANGED <<animationMutex, animations, pendingAnimations, runnerStarted, heap, caller>>
    /\ UNCHANGED <<fontVars, lay, metricVars>>

\* the driver takes the lock before one of its three sections
DriverLock(from, to) ==
    /\ tk.pc = from
    /\ animationMutex = Free
    /\ animationMutex' = Driver
    /\ tk' = [tk EXCEPT !.pc = to]
    /\ UNCHANGED <<animations, pendingAnimations, runnerStarted, heap, caller, hist>>
    /\ UNCHANGED <<fontVars, lay, metricVars>>

SnapLock == DriverLock("lock1", "snapshot")

\* oldList := r.animations
Snapshot ==
    /\ tk.pc = "snapshot"
    /\ tk' = [pc |-> "loop", oldList |-> animations, newList |-> <<>>, i |-> 1, ticked |-> {}]
    /\ hist' = Access(Driver, {"animations"})
    /\ animationMutex' = Free
    /\ UNCHANGED <<animations, pendingAnimations, runnerStarted, heap, caller>>
    /\ UNCHANGED <<fontVars, lay, metricVars>>

\* for _, a := range oldList { if !a.isStopped() ...
LoopCheck ==
    /\ tk.pc = "loop"
    /\ tk' = IF tk.i > Len(tk.oldList) THEN [tk EXCEPT !.pc = "lock2"]
             ELSE IF isStopped(heap[tk.oldList[tk.i]]) THEN [tk EXCEPT !.i = @ + 1]
             ELSE [tk EXCEPT !.pc = "tick"]
    /\ UNCHANGED <<animationMutex, animations, pendingAnimations, runnerStarted, heap,
                   caller, hist>>
    /\ UNCHANGED <<fontVars, lay, metricVars>>

\* ... && r.tickAnimation(a) { newList = append(newList, a) } }
TickAnim(expired) ==
    LET e == tk.oldList[tk.i]
        r == tickAnimation(heap[e], expired)
    IN /\ tk.pc = "tick"
       /\ expired => Len(heap[e].log) < LogCap
       /\ heap' = [heap EXCEPT ![e] =
                      IF r.ok \/ r.anim.over # "no" THEN r.anim
                      ELSE [r.anim EXCEPT !.over = "yes"]]
       /\ tk' = [tk EXCEPT !.pc = "loop", !.i = @ + 1,
                           !.newList = IF r.ok THEN Append(@, e) ELSE @,
                           !.ticked = @ \cup {e}]
       /\ hist' = [hist EXCEPT !.ticked = @ \cup {heap[e].a}]
       /\ UNCHANGED <<animationMutex, animations, pendingAnimations, runnerStarted, caller>>
       /\ UNCHANGED <<fontVars, lay, metricVars>>

MergeLock == DriverLock("lock2", "merge")

MergedPendingFirst(newList, pending) == pending \o newList

\* append(newList, r.pendingAnimations...)
Merged(newList, pending) == newList \o pending

\* r.animations = append(newList, r.pendingAnimations...); r.pendingAnimations = nil;
\* done = len(r.animations) == 0
Merge ==
    /\ tk.pc = "merge"
    /\ animations' = Merged(tk.newList, pendingAnimations)
    /\ pendingAnimations' = <<>>
    /\ tk' = [NoTick EXCEPT !.pc = IF Len(Merged(tk.newList, pendingAnimations)) = 0
                                  THEN "lock3" ELSE "idle"]
    /\ hist' = Access(Driver, {"animations", "pendingAnimations"})
    /\ animationMutex' = Free
    /\ UNCHANGED <<runnerStarted, heap, caller>>
    /\ UNCHANGED <<fontVars, lay, metricVars>>

ResetLock == DriverLock("lock3", "reset")

\* if done { r.runnerStarted = false }
Reset ==
    /\ tk.pc = "reset"
    /\ runnerStarted' = FALSE
    /\ tk' = NoTick
    /\ hist' = Access(Driver, {"runnerStarted"})
    /\ animationMutex' = Free
    /\ UNCHANGED <<animations, pendingAnimations, heap, caller>>
    /\ UNCHANGED <<fontVars, lay, metricVars>>

\* no call of Start, Stop or TickAnimations is in progress
Quiescent == tk.pc = "idle" /\ caller.pc = "idle"

Init == FontInit /\ lay = NoCall /\ MetricsIdle /\ RunnerInit

InitLayout ==
    /\ FontInit
    /\ theme.primaryOk /\ env.defaultOk /\ env.emoji = "ok"
    /\ lay = NoCall
    /\ MetricsIdle
    /\ RunnerInit

InitMetrics ==
    /\ FontInit
    /\ lay = NoCall
    /\ mkey \in Keys
    /\ metrics = {}
    /\ rts = NoRts
    /\ seen = NoSeen
    /\ RunnerInit

NextMetrics ==
    \/ DoRenderedTextSize
    \/ ClearMetrics
    \/ ClearFontCache
    \/ ThemeChange

SpecMetrics == InitMetrics /\ [][NextMetrics]_vars

NextLayout == DoProcessString \/ DoProcessSubString \/ DoProcessFontRun \/ DoTabStop

SpecLayout == InitLayout /\ [][NextLayout]_vars

Next ==
    \/ \E t \in Threads, s \in ThreadStyles : Call(t, s, MaxCalls)
    \/ \E t \in Threads : LoadPrimary(t)
    \/ \E t \in Threads : LoadDefault(t)
    \/ \E t \in Threads : Store(t)
    \/ ClearFontCache
    \/ ThemeChange

Spec == Init /\ [][Next]_vars

\* a single caller: no call overlaps another call, a clear or a theme change
NextSeq ==
    \/ \E s \in ThreadStyles : Call(1, s, MaxCalls)
    \/ LoadPrimary(1)
    \/ LoadDefault(1)
    \/ Store(1)
    \/ (pc[1] = "idle" /\ ClearFontCache)
    \/ (pc[1] = "idle" /\ ThemeChange)

SpecSeq == Init /\ [][NextSeq]_vars

\* one call of CachedFontFace on the empty cache, for any style
NextOne ==
    \/ \E s \in Styles : Call(1, s, 1)
    \/ LoadPrimary(1)
    \/ LoadDefault(1)
    \/ Store(1)

SpecOne == Init /\ [][NextOne]_vars

\* concurrent callers while the theme stays as it is and nothing clears the cache
NextCalls ==
    \/ \E t \in Threads, s \in ThreadStyles : Call(t, s, MaxCalls)
    \/ \E t \in Threads : LoadPrimary(t)
    \/ \E t \in Threads : LoadDefault(t)
    \/ \E t \in Threads : Store(t)

SpecCalls == Init /\ [][NextCalls]_vars

\* the painter is idle while the runner runs
InitRunner == InitLayout

\* the runner with a caller that starts and stops the animations of RunnerAnims
NextRunner ==
    \/ \E a \in RunnerAnims : StartLock(a, MaxStarts)
    \/ StartBody
    \/ \E a \in RunnerAnims : StopLock(a)
    \/ StopBody
    \/ TickCheck
    \/ SnapLock
    \/ Snapshot
    \/ LoopCheck
    \/ \E expired \in BOOLEAN : TickAnim(expired)
    \/ MergeLock
    \/ Merge
    \/ ResetLock
    \/ Reset

SpecRunner == InitRunner /\ [][NextRunner]_vars

\* the steps of the driver
DriverStep ==
    \/ TickCheck
    \/ SnapLock
    \/ Snapshot
    \/ LoopCheck
    \/ \E expired \in BOOLEAN : TickAnim(expired)
    \/ MergeLock
    \/ Merge
    \/ ResetLock
    \/ Reset

\* the sections of Start and Stop under the lock
CallerStep == StartBody \/ StopBody

\* TickAnimations keeps being called and gets the lock when it is free again
\* and again; a call of Start or Stop that holds the lock goes on
SpecRunnerFair == SpecRunner /\ SF_vars(DriverStep) /\ WF_vars(CallerStep)

\* one animation of any repeat count, with or without auto-reverse, is
\* started once
NextTick ==
    \/ \E a \in TickAnims : StartLock(a, 1)
    \/ StartBody
    \/ \E a \in {heap[e].a : e \in 1..Len(heap)} : StopLock(a)
    \/ StopBody
    \/ TickCheck
    \/ SnapLock
    \/ Snapshot
    \/ LoopCheck
    \/ \E expired \in BOOLEAN : TickAnim(expired)
    \/ MergeLock
    \/ Merge
    \/ ResetLock
    \/ Reset

SpecTick == InitRunner /\ [][NextTick]_vars

(***************************************************************************)
(* Properties of the font cache                                            *)
(***************************************************************************)

\* thread t has returned from a call and holds its result
Returned(t) == pc[t] = "idle" /\ ret[t] # NoItem

\* C1: every face list CachedFontFace returns is non-empty and its element 0
\* is a loaded face of the style's category, the primary or else the default,
\* whatever the load outcomes of the primary and the default face
C1_FirstFaceLoaded ==
    \A t \in Threads :
        Returned(t) =>
            /\ Len(ret[t].Fonts) >= 1
            /\ ret[t].Fonts[1] # NilFace
            /\ ret[t].Fonts[1].kind \in {"primary", "default"}

\* C2: a call that starts after ClearFontCache has returned (it read the map
\* installed by the latest clear) returns a face list built from a theme that
\* was current at or after that clear
C2_NoStaleAfterClear ==
    \A t \in Threads :
        (Returned(t) /\ ptr[t] = fontCache) =>
            ret[t].Fonts \in {FacesFor(th, env, Category(style[t])) : th \in sinceClear}

\* the precedence list of the face categories, first match wins
Precedence(s) ==
    <<  <<s.Monospace, "monospace">>,
        <<s.Bold /\ s.Italic, "boldItalic">>,
        <<s.Bold, "bold">>,
        <<s.Italic, "italic">>,
        <<s.Symbol, "symbol">>,
        <<TRUE, "regular">>  >>

FirstMatch(s) ==
    LET p == Precedence(s)
        i == CHOOSE k \in 1..Len(p) : p[k][1] /\ \A j \in 1..(k - 1) : ~p[j][1]
    IN p[i][2]

\* C8: the primary and the default face CachedFontFace loads are those of
\* the category chosen by Monospace > Bold+Italic > Bold > Italic > Symbol >
\* default, for all 16 combinations of the style flags
C8_Precedence ==
    \A t \in Threads :
        /\ (pc[t] = "f2" /\ f1[t] # NilFace) => f1[t].cat = FirstMatch(style[t])
        /\ Returned(t) =>
              \A i \in 1..2 :
                  ret[t].Fonts[i] # NilFace => ret[t].Fonts[i].cat = FirstMatch(style[t])

C8_Witness ==
    /\ Returned(1)
    /\ style[1] = MonoBoldStyle
    /\ ret[1].Fonts[1] = [cat |-> "monospace", kind |-> "primary", ver |-> 0]
    /\ ret[1].Fonts[2] = [cat |-> "monospace", kind |-> "default", ver |-> 0]

\* the step in which the single caller returns from a call for style s
ReturnsFrom(s) ==
    /\ pc'[1] = "idle"
    /\ style'[1] = s
    /\ \/ pc[1] = "store"
       \/ pc[1] = "idle" /\ calls' = calls + 1

\* C9: with a single caller, a call for a style resolved since the last clear
\* returns the cached item, the same one as the call before, without loading
\* any face; a call for a style not resolved since the last clear (also one
\* cached before that clear) loads the faces again and returns a new item
C9_HitThenReload ==
    [][\A s \in ThreadStyles :
          ReturnsFrom(s) =>
              IF s \in resolved
              THEN /\ pc[1] = "idle"
                   /\ nLoads'[1] = 0
                   /\ nextId' = nextId
                   /\ ret'[1] = cache[s]
                   /\ (style[1] = s => ret'[1] = ret[1])
              ELSE /\ pc[1] = "store"
                   /\ nLoads[1] >= 2
                   /\ ret'[1].id > ret[1].id
                   /\ \A x \in Styles : cache[x].id < ret'[1].id
                   /\ cache'[s] = ret'[1]]_vars

C9_Witness ==
    /\ Returned(1)
    /\ fontCache >= 1
    /\ calls >= 2
    /\ ret[1].id >= 2
    /\ cache[style[1]] = ret[1]
    /\ nLoads[1] >= 2

\* C10: while the theme does not change, the calls of two threads for the
\* same style return face lists with the same content, and the cache holds
\* an entry for that style with that content
C10_RaceSameContent ==
    \A t \in Threads :
        Returned(t) =>
            /\ cache[style[t]] # NoItem
            /\ cache[style[t]].Fonts = ret[t].Fonts
            /\ \A u \in Threads :
                  (Returned(u) /\ style[u] = style[t]) => ret[u].Fonts = ret[t].Fonts

\* both threads missed, both built an item, and both have returned
C10_Witness ==
    /\ Returned(1) /\ Returned(2)
    /\ style[1] = style[2]
    /\ ret[1].id # ret[2].id
    /\ nLoads[1] >= 2 /\ nLoads[2] >= 2
    /\ cache[style[1]].id \in {ret[1].id, ret[2].id}

(***************************************************************************)
(* Properties of RenderedTextSize and the metrics cache                    *)
(***************************************************************************)

\* C3 as stated: once a call for the key has returned, every later call, with
\* the metrics cache not cleared in between, returns the same pair without
\* calling measureText, whatever the measured values are
C3_RepeatFromCache ==
    (seen.n >= 2 /\ ~rts.panic) =>
        /\ ~rts.measured
        /\ rts.size = seen.size
        /\ rts.base = seen.base

\* C3 amended: that holds when the second value first returned is not zero;
\* when it is zero, every later call calls measureText again
C3_RepeatFromCacheNonZero ==
    (seen.n >= 2 /\ ~rts.panic) =>
        IF seen.base # 0
        THEN /\ ~rts.measured
             /\ rts.size = seen.size
             /\ rts.base = seen.base
        ELSE rts.measured

C3_Witness ==
    /\ seen.n >= 2
    /\ seen.base # 0
    /\ ~rts.measured
    /\ rts.base = seen.base
    /\ rts.size = seen.size
    /\ rts.size.Width > 0

\* the runes of a text that are shaped
Shaped(text) == SelectSeq(StripCR(text), LAMBDA r : r # Tab)

\* the largest ascent of the shaped runs of a text
Baseline(key, f) ==
    IF key.text = <<Space>> THEN 0
    ELSE MaxAscent(Line(Shaped(key.text), f, key.fontSize, Unit))

\* C4: the second value RenderedTextSize returns is the baseline of the text,
\* the largest ascent of its shaped runs, not the cursor advance
C4_SecondIsBaseline ==
    (rts.measured /\ ~rts.panic) => rts.base = Baseline(mkey, rts.f)

(***************************************************************************)
(* Properties of the layout                                                *)
(***************************************************************************)
RECURSIVE SumRunAdvance(_, _)
SumRunAdvance(sunk, k) ==
    IF k = 0 THEN 0
    ELSE fixed266ToFloat32(sunk[k].run.Advance) + SumRunAdvance(sunk, k - 1)

C15_SameFaceAndSize ==
    (lay.op = "processFontRun" /\ lay.res.calls[1].run # lay.run) =>
        /\ lay.res.calls[1].run.Face = lay.run.Face
        /\ lay.res.calls[1].run.Size = lay.run.Size

\* the ascent of a shaped run as a float32
AscentOf(run) == fixed266ToFloat32(run.LineBounds.Ascent)

\* the largest ascent of a line, 0 when no run has a positive ascent
LargestAscent(line) ==
    IF \E i \in 1..Len(line) : AscentOf(line[i]) > 0
    THEN CHOOSE m \in {AscentOf(line[i]) : i \in 1..Len(line)} :
             \A i \in 1..Len(line) : AscentOf(line[i]) <= m
    ELSE 0

\* C16: processSubString hands every run it did not substitute to the sink
\* with the same y, the largest ascent of the shaped runs of the substring,
\* and hands a replacement run to the sink with the ascent of the replacement
C16_SharedBaseline ==
    (lay.op = "processSubString" /\ ~lay.panic) =>
        LET line == Line(lay.s, lay.f, lay.fontSize, lay.scale)
        IN /\ Len(lay.res.calls) = Len(line)
           /\ \A k \in 1..Len(line) :
                 IF lay.res.calls[k].run = line[k]
                 THEN lay.res.calls[k].y = LargestAscent(line)
                 ELSE lay.res.calls[k].y = AscentOf(lay.res.calls[k].run)

\* a substring with a run below the shared baseline and a replacement run
\* that is not on it
C16_Witness ==
    /\ lay.op = "processSubString" /\ ~lay.panic
    /\ LET line == Line(lay.s, lay.f, lay.fontSize, lay.scale)
       IN /\ \E k \in 1..Len(line) :
                /\ lay.res.calls[k].run = line[k]
                /\ AscentOf(line[k]) < lay.res.calls[k].y
          /\ \E k \in 1..Len(line) :
                /\ lay.res.calls[k].run # line[k]
                /\ lay.res.calls[k].y # LargestAscent(line)

\* C5: processSubString returns startX plus the advances of the runs handed
\* to the sink, as advance and as width, and hands run k to the sink at
\* startX plus the advances of the runs before it
C5_AdvanceIsSum ==
    (lay.op = "processSubString" /\ ~lay.panic) =>
        /\ lay.res.advance = lay.x + SumRunAdvance(lay.res.calls, Len(lay.res.calls))
        /\ lay.res.size.Width = lay.res.advance
        /\ \A k \in 1..Len(lay.res.calls) :
              lay.res.calls[k].x = lay.x + SumRunAdvance(lay.res.calls, k - 1)

\* the stretches of runes between the tabs of a text
RECURSIVE TabFields(_)
TabFields(rs) ==
    IF \A i \in 1..Len(rs) : rs[i] # Tab THEN <<rs>>
    ELSE LET i == CHOOSE k \in 1..Len(rs) : rs[k] = Tab /\ \A j \in 1..(k - 1) : rs[j] # Tab
         IN <<SubSeq(rs, 1, i - 1)>> \o TabFields(SubSeq(rs, i + 1, Len(rs)))

RECURSIVE MaxFieldHeight(_, _, _, _)
MaxFieldHeight(fields, f, fontSize, scale) ==
    IF fields = <<>> THEN 0
    ELSE Max(IF fields[1] = <<>> THEN 0
             ELSE processSubString(fields[1], f, fontSize, scale, 0).size.Height,
             MaxFieldHeight(Tail(fields), f, fontSize, scale))

\* C6: the height processString returns is the largest line height of the
\* non-empty stretches between tabs, and its advance equals its width
C6_HeightIsMax ==
    (lay.op = "processString" /\ ~lay.panic) =>
        /\ lay.res.size.Height =
               MaxFieldHeight(TabFields(StripCR(lay.s)), lay.f, lay.fontSize, lay.scale)
        /\ lay.res.advance = lay.res.size.Width

\* the width of a tab stop for a call of tabStop
StopWidth(c) ==
    (c.scale * fontTabSpaceSize) * (IF c.tabWidth > 0 THEN c.tabWidth ELSE 4)

\* C7: tabStop returns the smallest multiple of the stop width that is
\* greater than x, the stop width being the space width times the tab
\* width, or times 4 when the tab width is not positive
C7_NextTabStop ==
    lay.op = "tabStop" =>
        /\ lay.res.advance % StopWidth(lay) = 0
        /\ lay.res.advance > lay.x
        /\ lay.res.advance - StopWidth(lay) <= lay.x
        /\ (lay.tabWidth = 4 /\ lay.x \in {0, 2 * lay.scale * fontTabSpaceSize})
              => lay.res.advance = 4 * lay.scale * fontTabSpaceSize

\* a cursor exactly on a tab stop moves to the next one
C7_Witness ==
    /\ lay.op = "tabStop"
    /\ lay.tabWidth <= 0
    /\ lay.x = 4 * lay.scale * fontTabSpaceSize
    /\ lay.res.advance = 8 * lay.scale * fontTabSpaceSize

(***************************************************************************)
(* Properties of the animation runner                                      *)
(***************************************************************************)
\* the step in which tickAnimation hands a value to the Tick callback of a
TickOf(a) == tk.pc = "tick" /\ tk'.pc = "loop" /\ heap[tk.oldList[tk.i]].a = a

\* C12: once Stop(a) has returned, the Tick callback of a is not invoked
\* again unless a is passed to Start again
C12_NoTickAfterStop ==
    [][\A a \in RunnerAnims : TickOf(a) => a \notin hist.stopRet]_vars

\* the positions of a list whose entry is for animation a
PositionsOf(list, a) == {i \in 1..Len(list) : heap[list[i]].a = a}

\* C13: when Stop(a) returns while no TickAnimations is in progress, neither
\* list has an entry for a, and the entries for other animations are the
\* ones from before in the order from before
C13_StopRemovesAll ==
    [][(caller.pc = "Stop" /\ caller'.pc = "idle" /\ tk.pc = "idle") =>
          /\ PositionsOf(animations', caller.a) = {}
          /\ PositionsOf(pendingAnimations', caller.a) = {}
          /\ animations' = SelectSeq(animations, LAMBDA e : heap[e].a # caller.a)
          /\ pendingAnimations' = SelectSeq(pendingAnimations, LAMBDA e : heap[e].a # caller.a)
      ]_vars

\* animation a was passed to Start
Started(a) == \E e \in 1..Len(heap) : heap[e].a = a

\* C14: an animation that was passed to Start and is never passed to Stop
\* has its Tick callback invoked at some time, when TickAnimations keeps
\* being called
C14_EventuallyTicked ==
    \A a \in RunnerAnims :
        (Started(a) /\ a \notin hist.stopCalled)
            ~> (a \in hist.ticked \/ a \in hist.stopCalled)

\* C17: no step of Start, Stop or TickAnimations reads or writes animations,
\* pendingAnimations or runnerStarted without holding animationMutex
C17_AllAccessLocked == hist.unguarded = {}

\* C20: when no call is in progress and the runner is not started, both
\* lists are empty
C20_StoppedMeansEmpty ==
    (Quiescent /\ ~runnerStarted) => (animations = <<>> /\ pendingAnimations = <<>>)

\* the elements of a list
Range(list) == {list[i] : i \in 1..Len(list)}

\* the entries of the snapshot that were ticked in this call of
\* TickAnimations and whose tick returned true
Survivors == SelectSeq(tk.oldList, LAMBDA e : e \in tk.ticked /\ heap[e].over = "no")

\* C18: Start appends the animation to pendingAnimations when the runner is
\* started, and to animations, setting runnerStarted, when it is not; no
\* entry of pendingAnimations is ticked by a call of TickAnimations that has
\* taken its snapshot; when that call finishes its merge, animations is the
\* surviving entries of the snapshot in their order followed by the pending
\* entries in the order of their Start calls, and pendingAnimations is empty
C18_PendingHandOff ==
    [][/\ (caller.pc = "Start" /\ caller'.pc = "idle") =>
             /\ Len(heap') = Len(heap) + 1
             /\ heap'[Len(heap')].a = caller.a
             /\ runnerStarted'
             /\ IF runnerStarted
                THEN /\ pendingAnimations' = Append(pendingAnimations, Len(heap'))
                     /\ animations' = animations
                ELSE /\ animations' = Append(animations, Len(heap'))
                     /\ pendingAnimations' = pendingAnimations
       /\ (tk.pc = "tick" /\ tk'.pc = "loop") =>
             /\ tk.oldList[tk.i] \notin Range(pendingAnimations)
             /\ tk.oldList[tk.i] \notin Range(pendingAnimations')
       /\ (tk.pc = "merge" /\ tk'.pc # "merge") =>
             /\ animations' = Survivors \o pendingAnimations
             /\ pendingAnimations' = <<>>
      ]_vars

\* after a call of TickAnimations the first animation, which was ticked and
\* goes on, is followed by two that were started during the call, in the
\* order of their Start calls, and were not ticked by it
C18_Witness ==
    /\ Quiescent
    /\ runnerStarted
    /\ animations = <<1, 2, 3>>
    /\ pendingAnimations = <<>>
    /\ heap[1].a \in hist.ticked
    /\ heap[2].a \notin hist.ticked
    /\ heap[3].a = heap[2].a

\* the values handed to Tick at the ends of k passes of an auto-reverse animation
Alternating(log) ==
    \A i \in 1..Len(log) : log[i] = IF i % 2 = 1 THEN "1.0" ELSE "0.0"

\* C19: for a repeat count n >= 0 without auto-reverse tickAnimation returns
\* false at the (n+1)-th expiry and not before, after Tick(1.0); with
\* auto-reverse it returns false at the end of the (n+1)-th reverse pass and
\* not before, after Tick(0.0), forward and reverse passes alternating; for
\* n < 0 it never returns false and repeatsLeft stays n.  An anim for which
\* it returned false is not in animations after that call of TickAnimations
\* and is not ticked again
C19_RepeatCount ==
    \A e \in 1..Len(heap) :
        LET n == heap[e].a.RepeatCount
            log == heap[e].log
        IN /\ heap[e].over # "ticked"
           /\ (heap[e].over # "no" /\ tk.pc = "idle") => e \notin Range(animations)
           /\ (n >= 0 /\ ~heap[e].a.AutoReverse) =>
                 /\ \A i \in 1..Len(log) : log[i] = "1.0"
                 /\ heap[e].over = "no" => Len(log) <= n
                 /\ heap[e].over # "no" => Len(log) = n + 1
           /\ (n >= 0 /\ heap[e].a.AutoReverse) =>
                 /\ Alternating(log)
                 /\ heap[e].over = "no" => Len(log) < 2 * (n + 1)
                 /\ heap[e].over # "no" => Len(log) = 2 * (n + 1)
                 /\ heap[e].over = "no" => (heap[e].reverse <=> Len(log) % 2 = 1)
           /\ n < 0 => (heap[e].over = "no" /\ heap[e].repeatsLeft = n)

\* an auto-reverse animation with one repeat has ended after its second
\* reverse pass and is gone from the list
C19_Witness ==
    \E e \in 1..Len(heap) :
        /\ heap[e].a.AutoReverse
        /\ heap[e].a.RepeatCount = 1
        /\ heap[e].over = "yes"
        /\ heap[e].log = <<"1.0", "0.0", "1.0", "0.0">>
        /\ Quiescent
        /\ animations = <<>>
====
